---- MODULE Spec2Model ----
(***************************************************************************)
(* Step orchestration of turdus_m3rula_gui.py: ProjectState, ProcessRunner, *)
(* StepManager and the MainWindow handlers that drive them.                 *)
(*                                                                          *)
(* Qt delivers events one handler at a time.  A handler runs to completion  *)
(* unless it opens a modal dialog (QMessageBox.exec / QMessageBox.warning): *)
(* the dialog runs a nested event loop in which process exit events and     *)
(* timers are still delivered while the rest of the handler waits on the    *)
(* call stack.  The variable stack holds those waiting continuations.       *)
(* QProcess.waitForFinished emits finished() synchronously, so the whole    *)
(* completion handling of a killed process runs inside ProcessRunner.stop.  *)
(***************************************************************************)
EXTENDS Integers, Sequences, FiniteSets, TLC

VARIABLES state, current_mode, enabled, steps, current_step, is_executing,
          current_step_callback, runner, procs, disk, stack, nchain, budget, last

vars == <<state, current_mode, enabled, steps, current_step, is_executing,
          current_step_callback, runner, procs, disk, stack, nchain, budget, last>>

\* ------------------------------------------------------------------ bounds
\* Calls of execute_step in one behaviour that starts at construction (Init).
MaxExecs == 1
\* Calls of execute_step in one behaviour that starts at a prepared project (InitRun).
MaxRuns == 3
\* Lines of a blob file, and XML elements on one line of it.
MaxLines == 3
MaxElems == 2

\* ------------------------------------------------------------- vocabulary
PENDING == "Pending"
RUNNING == "Running"
SUCCESS == "Success"
FAILED == "Failed"

NONE == "none"

\* The directories of the file system; Home is the project directory the
\* operator works in.
Dirs == {"d1", "d2"}
Home == "d1"

CanonicalBins == {"shcblock_pre.bin", "shcblock_post.bin", "pteblock.bin", "shcblock_unteth.bin"}
BinFiles == CanonicalBins \cup {"x.bin", "y.bin"}
ImageFiles == {"a-signed-SEP.img4", "a-iBoot.img4", "a-target-SEP.im4p"}
Generators == {"UNKNOWN", "0x1111222233334444"}

\* The state of one handler run, as a record of all variables.
S == [state |-> state, current_mode |-> current_mode, enabled |-> enabled,
      steps |-> steps, current_step |-> current_step, is_executing |-> is_executing,
      current_step_callback |-> current_step_callback, runner |-> runner,
      procs |-> procs, disk |-> disk, stack |-> stack, nchain |-> nchain,
      budget |-> budget, last |-> last]

Set(s) ==
    /\ state' = s.state
    /\ current_mode' = s.current_mode
    /\ enabled' = s.enabled
    /\ steps' = s.steps
    /\ current_step' = s.current_step
    /\ is_executing' = s.is_executing
    /\ current_step_callback' = s.current_step_callback
    /\ runner' = s.runner
    /\ procs' = s.procs
    /\ disk' = s.disk
    /\ stack' = s.stack
    /\ nchain' = s.nchain
    /\ budget' = s.budget
    /\ last' = s.last

\* What the handler that ran last did: events emitted, dialogs opened, calls made.
EmptyLog == [emits |-> <<>>, dialogs |-> <<>>, runs |-> <<>>, chains |-> <<>>,
             rets |-> <<>>, exits |-> <<>>, completions |-> <<>>, stopped |-> FALSE,
             loaded |-> FALSE, changed |-> FALSE, progress |-> <<>>, loads |-> <<>>,
             event |-> "", extracts |-> <<>>, changes |-> <<>>]

Fresh(s) == [s EXCEPT !.last = EmptyLog]

\* ------------------------------------------------------------ ProjectState
ProjectState_init == [root_dir |-> NONE, ipsw |-> NONE, blob |-> NONE, gen |-> NONE, chip |-> "A9"]

\* Python truth of a field value: None and the empty string are false.
Truthy(v) == v \notin {NONE, ""}

\* The data save writes: ipsw and blob as str(value) if the value is true, else
\* null (NONE); gen and chip as they are.
Record(st) == [ipsw |-> IF Truthy(st.ipsw) THEN st.ipsw ELSE NONE,
               blob |-> IF Truthy(st.blob) THEN st.blob ELSE NONE,
               gen |-> st.gen, chip |-> st.chip]

save(s) ==
    IF s.state.root_dir = NONE THEN s
    ELSE [s EXCEPT !.disk.pj[s.state.root_dir] = {Record(s.state)}]

\* disk.pj[d] is the set of records project.json of d holds: empty when the file
\* does not exist.
load(s, root_dir) ==
    IF s.disk.pj[root_dir] # {}
    THEN LET data == CHOOSE r \in s.disk.pj[root_dir] : TRUE
         IN  [s EXCEPT !.state = [root_dir |-> root_dir, ipsw |-> data.ipsw, blob |-> data.blob,
                                  gen |-> data.gen, chip |-> data.chip]]
    ELSE save([s EXCEPT !.state = [root_dir |-> root_dir, ipsw |-> NONE, blob |-> NONE,
                                   gen |-> NONE, chip |-> "A9"]])

Exists(s, f) == s.state.root_dir # NONE /\ f \in s.disk.files[s.state.root_dir]

\* ------------------------------------------------------------- StepManager
\* set_steps that installs the new list and keeps the current step index.
set_steps_keeps_current(s, funcs) ==
    [s EXCEPT !.steps = [i \in 1..Len(funcs) |-> [func |-> funcs[i], status |-> PENDING]]]

set_steps(s, funcs) ==
    [s EXCEPT !.steps = [i \in 1..Len(funcs) |-> [func |-> funcs[i], status |-> PENDING]],
              !.current_step = -1]

\* The log of an assignment to the status of the step at index.
Changed(s, index, to) ==
    Append(s.last.changes, [idx |-> index, from |-> s.steps[index + 1].status, to |-> to])

start_step(s, index) ==
    IF 0 <= index /\ index < Len(s.steps)
    THEN [s EXCEPT !.current_step = index, !.steps[index + 1].status = RUNNING,
                   !.last.changes = Changed(s, index, RUNNING)]
    ELSE s

complete_step(s, index, success) ==
    IF 0 <= index /\ index < Len(s.steps)
    THEN [s EXCEPT !.steps[index + 1].status = IF success THEN SUCCESS ELSE FAILED,
                   !.last.changes = Changed(s, index, IF success THEN SUCCESS ELSE FAILED)]
    ELSE s

\* ----------------------------------------------------------- ProcessRunner
ProcessRunner_init == [process |-> 0, is_running |-> FALSE, command_queue |-> <<>>,
                       nconn |-> 0, timers |-> 0]

Live(s) == {p \in 1..Len(s.procs) : s.procs[p].st = "live"}

\* The state of the command before command in its chain, when command is started.
Pred(s, command) ==
    LET before == {p \in 1..Len(s.procs) : /\ s.procs[p].cmd.chain = command.chain
                                           /\ s.procs[p].cmd.k = command.k - 1}
    IN  IF command.k = 1 THEN "first"
        ELSE IF before = {} THEN "never run"
        ELSE s.procs[CHOOSE p \in before : TRUE].st

\* run(command): a new QProcess replaces the handle and is started, unless
\* is_running.  ret is the value run returns.
run_process(s, command) ==
    IF s.runner.is_running
    THEN [s |-> s, ret |-> FALSE]
    ELSE [s |-> [s EXCEPT !.procs = Append(@, [cmd |-> command, st |-> "live",
                                               pred |-> Pred(s, command)]),
                          !.runner.process = Len(s.procs) + 1,
                          !.runner.is_running = TRUE],
          ret |-> TRUE]

\* run(command), and the record of the call in the log.
run(s, command) ==
    LET r == run_process(s, command)
    IN  [r.s EXCEPT !.last.runs =
            Append(@, [is_running |-> s.runner.is_running,
                       live |-> Cardinality(Live(s)),
                       ret |-> r.ret,
                       started |-> Len(r.s.procs) - Len(s.procs),
                       unchanged |-> r.s = s,
                       now_running |-> r.s.runner.is_running])]

\* run_chain(commands): the queue is overwritten, one more connection of
\* process_finished to _on_chain_step_finished is made, the first command is run.
run_chain(s, commands) ==
    LET s1 == [s EXCEPT !.runner.command_queue = commands,
                        !.runner.nconn = @ + 1,
                        !.nchain = @ + 1]
        s2 == IF commands # <<>>
              THEN run([s1 EXCEPT !.runner.command_queue = Tail(commands)], Head(commands))
              ELSE s1
    IN  [s2 EXCEPT !.last.chains = Append(@, [is_running |-> s.runner.is_running,
                                              before |-> s.runner.command_queue,
                                              after |-> s2.runner.command_queue,
                                              chain |-> s1.nchain,
                                              func |-> IF commands = <<>> THEN ""
                                                       ELSE Head(commands).func,
                                              gen |-> s.state.gen])]

\* ------------------------------------------------------------ call stack
\* Frames, top first.  dlg_result and dlg_warn are open modal dialogs; the
\* others are the rest of a handler that waits for the call above it to return.
NoFrame == [t |-> "", success |-> FALSE, idx |-> -1, n |-> 0, handed |-> FALSE,
            pre |-> <<>>, buttons |-> {}]

Push(s, f) == [s EXCEPT !.stack = <<f>> \o @]
Pop(s) == [s EXCEPT !.stack = Tail(@)]

Blocking(f) == f.t \in {"dlg_result", "dlg_warn", "aborted"}

\* ------------------------------------------------------- working directory
\* Entries of block/ and image4/ that the loop of move_temp_files passes over:
\* a name that starts with a dot, and a file inside a nested directory (glob("*")
\* yields the directory, which is not a file).
Skipped == {".DS_Store", "nested/x.bin"}

\* move_temp_files: the regular files directly under block/ and image4/ whose
\* names do not start with a dot go to the project root; rmtree then removes the
\* two directories with whatever is left in them.
move_temp_files(s) ==
    IF s.state.root_dir = NONE THEN s
    ELSE LET d == s.state.root_dir
         IN  [s EXCEPT !.disk.files[d] = @ \cup (s.disk.tmp[d] \ Skipped), !.disk.tmp[d] = {}]

\* ------------------------------------------------------ artifact resolution
\* The resolver without its test for an existing target: the newest candidate
\* always replaces the target.
resolve_always_renames(s, target, excluded, success, pick) ==
    LET d == s.state.root_dir
        blocks == (s.disk.files[d] \cap BinFiles) \ excluded
        latest == IF pick \in blocks THEN pick ELSE CHOOSE b \in blocks : TRUE
    IN  IF ~success THEN [s |-> s, ret |-> FALSE]
        ELSE IF blocks # {}
             THEN [s |-> [s EXCEPT !.disk.files[d] = (@ \ {latest}) \cup {target}], ret |-> TRUE]
             ELSE [s |-> s, ret |-> FALSE]

\* The resolver that copies the newest candidate and leaves it in place.
resolve_copies(s, target, excluded, success, pick) ==
    LET d == s.state.root_dir
        blocks == (s.disk.files[d] \cap BinFiles) \ excluded
    IN  IF ~success THEN [s |-> s, ret |-> FALSE]
        ELSE IF target \in s.disk.files[d] THEN [s |-> s, ret |-> TRUE]
        ELSE IF blocks # {}
             THEN [s |-> [s EXCEPT !.disk.files[d] = @ \cup {target}], ret |-> TRUE]
             ELSE [s |-> s, ret |-> FALSE]

\* The body of the on_complete closures that rename the newest *.bin: pick is the
\* file with the greatest st_mtime among the candidates.
resolve(s, target, excluded, success, pick) ==
    LET d == s.state.root_dir
        blocks == (s.disk.files[d] \cap BinFiles) \ excluded
        latest == IF pick \in blocks THEN pick ELSE CHOOSE b \in blocks : TRUE
    IN  IF ~success THEN [s |-> s, ret |-> FALSE]
        ELSE IF target \in s.disk.files[d] THEN [s |-> s, ret |-> TRUE]
        ELSE IF blocks # {}
             THEN [s |-> [s EXCEPT !.disk.files[d] = (@ \ {latest}) \cup {target}], ret |-> TRUE]
             ELSE [s |-> s, ret |-> FALSE]

\* The body of the on_complete closures of the restore steps.
touch_restore_done(s, success) ==
    LET d == s.state.root_dir
    IN  IF success
        THEN [s |-> [s EXCEPT !.disk.files[d] = @ \cup {"restore_done"}], ret |-> TRUE]
        ELSE [s |-> s, ret |-> FALSE]

\* current_step_callback(success), by the step behaviour that registered it.
on_complete(s, cb, success, pick) ==
    CASE cb = "step_a9_teth_get_shc_pre" ->
            resolve(s, "shcblock_pre.bin", {}, success, pick)
      [] cb = "step_a9_teth_get_shc_post" ->
            resolve(s, "shcblock_post.bin", {"shcblock_pre.bin", "shcblock_post.bin"}, success, pick)
      [] cb = "step_a9_teth_get_pte" ->
            resolve(s, "pteblock.bin", {"shcblock_pre.bin", "shcblock_post.bin", "pteblock.bin"},
                    success, pick)
      [] cb = "step_a9_unteth_get_shc" ->
            resolve(s, "shcblock_unteth.bin", {}, success, pick)
      [] OTHER -> touch_restore_done(s, success)

\* ---------------------------------------------------------- step behaviours
\* A command of a chain: the chain it was built for, its position, the chain's
\* length and the behaviour that built it.
Cmds(s, func, n) ==
    [k \in 1..n |-> [chain |-> s.nchain + 1, k |-> k, n |-> n, func |-> func,
                     dir |-> s.state.root_dir]]

\* The "Missing" branch of a behaviour: the warning box opens; once it is closed
\* the step is completed as failed and is_executing cleared.
fail_fast(s) == Push(s, [NoFrame EXCEPT !.t = "dlg_warn"])

launch(s, func, n, registers) ==
    run_chain(IF registers THEN [s EXCEPT !.current_step_callback = func] ELSE s,
              Cmds(s, func, n))

step_a9_teth_get_shc_pre(s) ==
    IF ~Truthy(s.state.ipsw) \/ s.state.root_dir = NONE THEN fail_fast(s)
    ELSE launch(s, "step_a9_teth_get_shc_pre", 2, TRUE)

step_a9_teth_restore(s) ==
    IF ~Truthy(s.state.ipsw) \/ s.state.root_dir = NONE THEN fail_fast(s)
    ELSE IF ~Exists(s, "shcblock_pre.bin") THEN fail_fast(s)
    ELSE launch(s, "step_a9_teth_restore", 2, TRUE)

step_a9_teth_get_shc_post(s) ==
    IF s.state.root_dir = NONE THEN fail_fast(s)
    ELSE launch(s, "step_a9_teth_get_shc_post", 1, TRUE)

step_a9_teth_get_pte(s) ==
    IF s.state.root_dir = NONE THEN fail_fast(s)
    ELSE IF ~Exists(s, "shcblock_post.bin") THEN fail_fast(s)
    ELSE IF ~Exists(s, "a-signed-SEP.img4") THEN fail_fast(s)
    ELSE launch(s, "step_a9_teth_get_pte", 1, TRUE)

step_a9_teth_boot(s) ==
    IF s.state.root_dir = NONE THEN fail_fast(s)
    ELSE IF ~Exists(s, "pteblock.bin") THEN fail_fast(s)
    ELSE launch(s, "step_a9_teth_boot", 1, FALSE)

step_a10_teth_restore(s) ==
    IF ~Truthy(s.state.ipsw) \/ s.state.root_dir = NONE THEN fail_fast(s)
    ELSE launch(s, "step_a10_teth_restore", 2, TRUE)

step_a10_teth_boot(s) ==
    IF s.state.root_dir = NONE THEN fail_fast(s)
    ELSE IF \/ ~Exists(s, "a-iBoot.img4")
            \/ ~Exists(s, "a-signed-SEP.img4")
            \/ ~Exists(s, "a-target-SEP.im4p") THEN fail_fast(s)
    ELSE launch(s, "step_a10_teth_boot", 1, FALSE)

step_a9_unteth_get_shc(s) ==
    IF ~Truthy(s.state.ipsw) \/ s.state.root_dir = NONE THEN fail_fast(s)
    ELSE launch(s, "step_a9_unteth_get_shc", 2, TRUE)

step_a9_unteth_restore(s) ==
    IF ~Truthy(s.state.ipsw) \/ ~Truthy(s.state.blob) \/ ~Truthy(s.state.gen) \/ s.state.root_dir = NONE
    THEN fail_fast(s)
    ELSE IF ~Exists(s, "shcblock_unteth.bin") THEN fail_fast(s)
    ELSE launch(s, "step_a9_unteth_restore", 2, TRUE)

step_a10_unteth_restore(s) ==
    IF ~Truthy(s.state.ipsw) \/ ~Truthy(s.state.blob) \/ ~Truthy(s.state.gen) \/ s.state.root_dir = NONE
    THEN fail_fast(s)
    ELSE launch(s, "step_a10_unteth_restore", 2, TRUE)

\* step.func()
func(s, f) ==
    CASE f = "step_a9_teth_get_shc_pre" -> step_a9_teth_get_shc_pre(s)
      [] f = "step_a9_teth_restore" -> step_a9_teth_restore(s)
      [] f = "step_a9_teth_get_shc_post" -> step_a9_teth_get_shc_post(s)
      [] f = "step_a9_teth_get_pte" -> step_a9_teth_get_pte(s)
      [] f = "step_a9_teth_boot" -> step_a9_teth_boot(s)
      [] f = "step_a10_teth_restore" -> step_a10_teth_restore(s)
      [] f = "step_a10_teth_boot" -> step_a10_teth_boot(s)
      [] f = "step_a9_unteth_get_shc" -> step_a9_unteth_get_shc(s)
      [] f = "step_a9_unteth_restore" -> step_a9_unteth_restore(s)
      [] f = "step_a10_unteth_restore" -> step_a10_unteth_restore(s)

\* The step table with the two untethered A9 steps in the wrong order.
StepTable_swapped(chip, mode) ==
    IF mode = "teth"
    THEN IF chip = "A9"
         THEN <<"step_a9_teth_get_shc_pre", "step_a9_teth_restore", "step_a9_teth_get_shc_post",
                "step_a9_teth_get_pte", "step_a9_teth_boot">>
         ELSE <<"step_a10_teth_restore", "step_a10_teth_boot">>
    ELSE IF chip = "A9"
         THEN <<"step_a9_unteth_restore", "step_a9_unteth_get_shc">>
         ELSE <<"step_a10_unteth_restore">>

\* The step table of load_steps.
StepTable(chip, mode) ==
    IF mode = "teth"
    THEN IF chip = "A9"
         THEN <<"step_a9_teth_get_shc_pre", "step_a9_teth_restore", "step_a9_teth_get_shc_post",
                "step_a9_teth_get_pte", "step_a9_teth_boot">>
         ELSE <<"step_a10_teth_restore", "step_a10_teth_boot">>
    ELSE IF chip = "A9"
         THEN <<"step_a9_unteth_get_shc", "step_a9_unteth_restore">>
         ELSE <<"step_a10_unteth_restore">>

update_step_buttons_state(s) ==
    [s EXCEPT !.enabled = IF s.current_mode = "teth"
                          THEN Truthy(s.state.ipsw)
                          ELSE Truthy(s.state.ipsw) /\ Truthy(s.state.blob) /\ Truthy(s.state.gen)]

load_steps(s) ==
    [update_step_buttons_state(set_steps(s, StepTable(s.state.chip, s.current_mode)))
        EXCEPT !.last.loaded = TRUE]

\* -------------------------------------------------------------- MainWindow
\* What execute_step finds on entry: the project fields and the files of the root.
Facts(s) == [root_dir |-> s.state.root_dir, ipsw |-> s.state.ipsw, blob |-> s.state.blob,
             gen |-> s.state.gen,
             files |-> IF s.state.root_dir = NONE THEN {} ELSE s.disk.files[s.state.root_dir]]

\* (root_dir / "block").mkdir(exist_ok=True) and the same for image4: mkdir raises
\* FileExistsError when the name is taken by a file that is not a directory.
mkdir_raises(s) ==
    s.state.root_dir # NONE /\ {"block", "image4"} \cap s.disk.files[s.state.root_dir] # {}

\* An exception leaves the slot Qt called: PyQt ends the program (qFatal), so no
\* handler waiting on the call stack resumes and no event is delivered any more.
abort(s) == [s EXCEPT !.stack = <<[NoFrame EXCEPT !.t = "aborted"]>>]

\* execute_step(index).  The frame exec_ret is the return of execute_step: it sits
\* under the warning box a behaviour may have opened.  The two mkdir calls stand
\* before the try block: what they raise leaves execute_step.  The behaviours
\* raise nothing on the states modelled, so the except branch is never taken.
execute_step(s, index) ==
    IF index >= Len(s.steps) THEN s
    ELSE LET f == s.steps[index + 1].func
             s1 == [start_step(s, index) EXCEPT !.is_executing = TRUE, !.budget = @ - 1]
             s2 == func(s1, f)
             new == Len(s2.stack) - Len(s1.stack)
             ret == [NoFrame EXCEPT !.t = "exec_ret", !.idx = index,
                                    !.handed = s2.nchain # s1.nchain,
                                    !.pre = <<f, Facts(s1)>>]
         IN  IF mkdir_raises(s1)
             THEN abort([s1 EXCEPT !.last.rets =
                            Append(@, [idx |-> index, func |-> f, pre |-> Facts(s1),
                                       handed |-> FALSE, status |-> s1.steps[index + 1].status,
                                       is_executing |-> s1.is_executing, raised |-> TRUE])])
             ELSE [s2 EXCEPT !.stack = SubSeq(s2.stack, 1, new) \o <<ret>> \o s1.stack]

exec_ret(s, f) ==
    [s EXCEPT !.last.rets = Append(@, [idx |-> f.idx, func |-> f.pre[1], pre |-> f.pre[2],
                                       handed |-> f.handed,
                                       status |-> IF f.idx < Len(s.steps)
                                                  THEN s.steps[f.idx + 1].status ELSE NONE,
                                       is_executing |-> s.is_executing, raised |-> FALSE])]

\* The rest of a behaviour's "Missing" branch, once the warning box is closed.
warn_closed(s) ==
    [complete_step(s, s.current_step, FALSE) EXCEPT !.is_executing = FALSE]

\* show_step_result_dialog with is_last_step compared against len(steps).
show_step_result_dialog_off_by_one(s, success) ==
    LET current_idx == s.current_step
        is_last_step == current_idx = Len(s.steps)
        buttons == IF success
                   THEN IF is_last_step THEN {"Close"} ELSE {"Next Step", "Close"}
                   ELSE {"Retry", "Close"}
    IN  IF current_idx < 0 \/ current_idx >= Len(s.steps) THEN s
        ELSE Push([s EXCEPT !.last.dialogs =
                        Append(@, [success |-> success, idx |-> current_idx,
                                   status |-> s.steps[current_idx + 1].status,
                                   is_last |-> is_last_step, buttons |-> buttons])],
                  [NoFrame EXCEPT !.t = "dlg_result", !.success = success,
                                  !.idx = current_idx, !.buttons = buttons])

show_step_result_dialog(s, success) ==
    LET current_idx == s.current_step
        is_last_step == current_idx = Len(s.steps) - 1
        buttons == IF success
                   THEN IF is_last_step THEN {"Close"} ELSE {"Next Step", "Close"}
                   ELSE {"Retry", "Close"}
    IN  IF current_idx < 0 \/ current_idx >= Len(s.steps) THEN s
        ELSE Push([s EXCEPT !.last.dialogs =
                        Append(@, [success |-> success, idx |-> current_idx,
                                   status |-> s.steps[current_idx + 1].status,
                                   is_last |-> is_last_step, buttons |-> buttons])],
                  [NoFrame EXCEPT !.t = "dlg_result", !.success = success,
                                  !.idx = current_idx, !.buttons = buttons])

\* The part of show_step_result_dialog after msg_box.exec() returned with clicked.
dialog_closed(s, f, clicked) ==
    IF f.success
    THEN IF "Next Step" \in f.buttons /\ clicked = "Next Step"
         THEN IF f.idx + 1 < Len(s.steps) THEN execute_step(s, f.idx + 1) ELSE s
         ELSE s
    ELSE IF clicked = "Retry"
         THEN IF f.idx >= 0 THEN execute_step(s, f.idx) ELSE s
         ELSE s

\* on_command_chain_finished that runs a failed step again by itself.
on_command_chain_finished_auto_retry(s, success, pick) ==
    LET s1 == move_temp_files([s EXCEPT !.is_executing = FALSE,
                                        !.last.emits = Append(@, success)])
        current_idx == s1.current_step
        cb == s1.current_step_callback
        r == on_complete(s1, cb, success, pick)
        s2 == IF current_idx >= 0
              THEN IF cb # NONE
                   THEN [complete_step(r.s, current_idx, r.ret)
                            EXCEPT !.current_step_callback = NONE]
                   ELSE complete_step(s1, current_idx, success)
              ELSE s1
        s3 == IF 0 <= current_idx /\ current_idx < Len(s2.steps) /\ s2.state.root_dir # NONE
              THEN [s2 EXCEPT !.last.completions =
                        Append(@, [success |-> success, cb |-> cb,
                                   func |-> s2.steps[current_idx + 1].func,
                                   status |-> s2.steps[current_idx + 1].status,
                                   ran |-> IF s.runner.process = 0 THEN NONE
                                           ELSE s.procs[s.runner.process].cmd.func,
                                   before |-> s.disk, moved |-> s1.disk, after |-> s2.disk,
                                   chain |-> s2.nchain, procs |-> s2.procs,
                                   newest |-> pick,
                                   dir |-> IF s.runner.process = 0 THEN NONE
                                           ELSE s.procs[s.runner.process].cmd.dir])]
              ELSE s2
    IN  IF success \/ current_idx < 0 THEN show_step_result_dialog(s3, success)
        ELSE execute_step(s3, current_idx)

on_command_chain_finished(s, success, pick) ==
    LET s1 == move_temp_files([s EXCEPT !.is_executing = FALSE,
                                        !.last.emits = Append(@, success)])
        current_idx == s1.current_step
        cb == s1.current_step_callback
        r == on_complete(s1, cb, success, pick)
        s2 == IF current_idx >= 0
              THEN IF cb # NONE
                   THEN [complete_step(r.s, current_idx, r.ret)
                            EXCEPT !.current_step_callback = NONE]
                   ELSE complete_step(s1, current_idx, success)
              ELSE s1
        s3 == IF 0 <= current_idx /\ current_idx < Len(s2.steps) /\ s2.state.root_dir # NONE
              THEN [s2 EXCEPT !.last.completions =
                        Append(@, [success |-> success, cb |-> cb,
                                   func |-> s2.steps[current_idx + 1].func,
                                   status |-> s2.steps[current_idx + 1].status,
                                   ran |-> IF s.runner.process = 0 THEN NONE
                                           ELSE s.procs[s.runner.process].cmd.func,
                                   before |-> s.disk, moved |-> s1.disk, after |-> s2.disk,
                                   chain |-> s2.nchain, procs |-> s2.procs,
                                   newest |-> pick,
                                   dir |-> IF s.runner.process = 0 THEN NONE
                                           ELSE s.procs[s.runner.process].cmd.dir])]
              ELSE s2
    IN  show_step_result_dialog(s3, success)

\* _on_chain_step_finished, invoked for one of the n connections this emission of
\* process_finished still has to serve.  disconnect removes one connection of the
\* slot: skip tells whether it is one this emission had not served yet.
on_chain_step_finished(s, success, n, skip, pick) ==
    LET rest == IF skip /\ n >= 2 THEN n - 2 ELSE n - 1
        slots(k) == [NoFrame EXCEPT !.t = "slots", !.success = success, !.n = k]
    IN  IF ~success
        THEN on_command_chain_finished(
                 Push([s EXCEPT !.runner.command_queue = <<>>, !.runner.nconn = @ - 1],
                      slots(rest)), FALSE, pick)
        ELSE IF s.runner.command_queue # <<>>
        THEN Push([s EXCEPT !.runner.timers = @ + 1], slots(n - 1))
        ELSE on_command_chain_finished(
                 Push([s EXCEPT !.runner.nconn = @ - 1], slots(rest)), TRUE, pick)

\* _on_finished of process p, and the emission of process_finished it makes.
on_finished(s, p, success) ==
    Push([s EXCEPT !.procs[p].st = IF success THEN "ok" ELSE "fail",
                   !.runner.is_running = FALSE,
                   !.last.exits = Append(@, [cmd |-> s.procs[p].cmd, success |-> success,
                                             nconn |-> s.runner.nconn])],
         [NoFrame EXCEPT !.t = "slots", !.success = success, !.n = s.runner.nconn])

\* The QTimer.singleShot lambda: run(command_queue.pop(0)); pop(0) of an empty
\* queue raises IndexError, run is not called and the exception leaves the
\* callable Qt invoked.
settle_timer(s) ==
    LET s1 == [s EXCEPT !.runner.timers = @ - 1]
    IN  IF s1.runner.command_queue = <<>> THEN abort(s1)
        ELSE run([s1 EXCEPT !.runner.command_queue = Tail(@)], Head(s1.runner.command_queue))

\* ProcessRunner.stop up to waitForFinished, called by stop_execution: the frame
\* stop_tail is the rest of stop and of stop_execution.  exited tells whether the
\* process had exited with code 0 on its own before the kill reached it.
stop(s, exited) ==
    IF s.runner.process # 0 /\ s.runner.is_running
    THEN LET s1 == Push(s, [NoFrame EXCEPT !.t = "stop_tail", !.n = 1])
         IN  IF s.procs[s.runner.process].st = "live"
             THEN on_finished(s1, s.runner.process, exited)
             ELSE s1
    ELSE Push(s, [NoFrame EXCEPT !.t = "stop_tail", !.n = 0])

stop_tail(s, f) ==
    [s EXCEPT !.runner.is_running = IF f.n = 1 THEN FALSE ELSE @,
              !.runner.command_queue = <<>>,
              !.is_executing = FALSE,
              !.last.stopped = TRUE]

\* Runs the handlers waiting on the call stack until a dialog is open or none is left.
RECURSIVE Unwind(_, _, _)
Unwind(s, skip, pick) ==
    IF s.stack = <<>> THEN s
    ELSE LET f == Head(s.stack)
         IN  CASE Blocking(f) -> s
               [] f.t = "slots" ->
                    IF f.n = 0 THEN Unwind(Pop(s), skip, pick)
                    ELSE Unwind(on_chain_step_finished(Pop(s), f.success, f.n, skip, pick),
                                skip, pick)
               [] f.t = "stop_tail" -> Unwind(stop_tail(Pop(s), f), skip, pick)
               [] f.t = "exec_ret" -> Unwind(exec_ret(Pop(s), f), skip, pick)

on_chip_changed(s, chip) ==
    load_steps(save([s EXCEPT !.state.chip = chip, !.last.changed = TRUE]))

on_mode_changed(s, mode) ==
    load_steps([s EXCEPT !.current_mode = mode, !.last.changed = TRUE])

\* The markers with the two SHC blocks of A9 tethered exchanged.
Marker_exchanged(mode, chip, i) ==
    IF mode = "teth"
    THEN IF chip = "A9"
         THEN CASE i = 0 -> "shcblock_post.bin"
                [] i = 1 -> "restore_done"
                [] i = 2 -> "shcblock_pre.bin"
                [] i = 3 -> "pteblock.bin"
                [] OTHER -> NONE
         ELSE IF i = 0 THEN "restore_done" ELSE NONE
    ELSE IF chip = "A9"
         THEN CASE i = 0 -> "shcblock_unteth.bin"
                [] i = 1 -> "restore_done"
                [] OTHER -> NONE
         ELSE IF i = 0 THEN "restore_done" ELSE NONE

\* The marker or artifact whose presence makes detect_progress mark step i.
Marker(mode, chip, i) ==
    IF mode = "teth"
    THEN IF chip = "A9"
         THEN CASE i = 0 -> "shcblock_pre.bin"
                [] i = 1 -> "restore_done"
                [] i = 2 -> "shcblock_post.bin"
                [] i = 3 -> "pteblock.bin"
                [] OTHER -> NONE
         ELSE IF i = 0 THEN "restore_done" ELSE NONE
    ELSE IF chip = "A9"
         THEN CASE i = 0 -> "shcblock_unteth.bin"
                [] i = 1 -> "restore_done"
                [] OTHER -> NONE
         ELSE IF i = 0 THEN "restore_done" ELSE NONE

\* detect_progress.  next is the set of buttons the loop hands is_next = True:
\* next_step_index is the first step found Pending, set in the iteration that
\* updates its button.
detect_progress(s) ==
    IF s.state.root_dir = NONE THEN s
    ELSE LET after == [i \in 1..Len(s.steps) |->
                          IF Exists(s, Marker(s.current_mode, s.state.chip, i - 1))
                          THEN [s.steps[i] EXCEPT !.status = SUCCESS]
                          ELSE s.steps[i]]
             pending == {i \in 0..(Len(after) - 1) : after[i + 1].status = PENDING}
             next_step_index == IF pending = {} THEN -1
                                ELSE CHOOSE i \in pending : \A j \in pending : i <= j
         IN  [s EXCEPT !.steps = after,
                       !.last.progress =
                           Append(@, [before |-> s.steps, after |-> after,
                                      chip |-> s.state.chip, mode |-> s.current_mode,
                                      files |-> s.disk.files[s.state.root_dir],
                                      next |-> {i \in 0..(Len(after) - 1) : i = next_step_index}])]

\* load_project: setChecked on the chip button runs on_chip_changed when the
\* loaded chip is not the one that was checked.
load_project(s, project_dir) ==
    LET s1 == load(s, project_dir)
        s2 == IF s1.state.chip # s.state.chip THEN on_chip_changed(s1, s1.state.chip) ELSE s1
    IN  update_step_buttons_state(detect_progress(s2))

select_ipsw(s, path) ==
    IF s.state.root_dir = NONE THEN s
    ELSE update_step_buttons_state(save([s EXCEPT !.state.ipsw = path]))

select_blob(s, path, gen) ==
    IF s.state.root_dir = NONE THEN s
    ELSE update_step_buttons_state(save([s EXCEPT !.state.blob = path, !.state.gen = gen]))

\* The text of a blob file: lines of XML elements.  key_generator stands for
\* <key>generator</key>, string_gen for <string>0x1111222233334444</string>,
\* string_word for <string>generator</string>, string_other and key_other for a
\* string and a key that do not hold the word generator.
Elems == {"key_generator", "string_gen", "string_word", "string_other", "key_other"}

StringValue(e) ==
    CASE e = "string_gen" -> "0x1111222233334444"
      [] e = "string_word" -> "generator"
      [] e = "string_other" -> "abc"
      [] OTHER -> NONE

\* grep 'generator' takes a line that holds the word anywhere.
HasWord(line) == \E j \in 1..Len(line) : line[j] \in {"key_generator", "string_word"}

\* extract_generator: cat blob | grep -A 1 'generator' prints every line that
\* holds the word and the line after it; re.search takes the first
\* <string>...</string> of that output.  A blob that cannot be read gives no
\* output.
extract_generator(blob) ==
    IF ~blob.readable THEN "UNKNOWN"
    ELSE LET text == blob.lines
             printed == {i \in 1..Len(text) :
                            HasWord(text[i]) \/ (i > 1 /\ HasWord(text[i - 1]))}
             hits == {p \in printed \X (1..MaxElems + 1) :
                         p[2] <= Len(text[p[1]]) /\ StringValue(text[p[1]][p[2]]) # NONE}
             first == CHOOSE p \in hits :
                         \A q \in hits : p[1] < q[1] \/ (p[1] = q[1] /\ p[2] <= q[2])
         IN  IF hits = {} THEN "UNKNOWN" ELSE StringValue(text[first[1]][first[2]])

\* dropEvent of one file: an .ipsw, or an .shsh/.shsh2 whose generator is gen.
dropEvent(s, kind, path, gen) ==
    IF kind = "ipsw" THEN save([s EXCEPT !.state.ipsw = path])
    ELSE save([s EXCEPT !.state.blob = path, !.state.gen = gen])

\* ------------------------------------------------------------------ actions
Idle == stack = <<>>

Aborted == stack # <<>> /\ Head(stack).t = "aborted"

\* The inputs a handler can depend on: which connection a disconnect removes
\* matters with two or more connections, the newest *.bin when a resolver is
\* registered.
Skips == IF runner.nconn >= 2 THEN BOOLEAN ELSE {FALSE}
Picks == IF current_step_callback \in {"step_a9_teth_get_shc_pre", "step_a9_teth_get_shc_post",
                                       "step_a9_teth_get_pte", "step_a9_unteth_get_shc"}
         THEN BinFiles ELSE {"x.bin"}

Init ==
    /\ state = ProjectState_init
    /\ current_mode = "teth"
    /\ enabled = FALSE
    /\ steps = [i \in 1..5 |-> [func |-> StepTable("A9", "teth")[i], status |-> PENDING]]
    /\ current_step = -1
    /\ is_executing = FALSE
    /\ current_step_callback = NONE
    /\ runner = ProcessRunner_init
    /\ procs = <<>>
    /\ disk = [files |-> [d \in Dirs |-> {}], tmp |-> [d \in Dirs |-> {}],
               pj |-> [d \in Dirs |-> {}]]
    /\ stack = <<>>
    /\ nchain = 0
    /\ budget = MaxExecs
    /\ last = EmptyLog

\* A click on an enabled step button.
ClickStep ==
    /\ Idle /\ enabled /\ budget > 0
    /\ \E i \in 0..(Len(steps) - 1) :
          Set(Unwind(execute_step([Fresh(S) EXCEPT !.last.event = "click"], i), FALSE, "x.bin"))

\* The operator closes the result dialog with one of its buttons.
DialogChoice ==
    /\ stack # <<>> /\ Head(stack).t = "dlg_result"
    /\ \E clicked \in Head(stack).buttons, skip \in Skips, pick \in Picks :
          /\ clicked \in {"Next Step", "Retry"} => budget > 0
          /\ Set(Unwind(dialog_closed(Pop([Fresh(S) EXCEPT !.last.event = clicked]),
                                     Head(stack), clicked), skip, pick))

\* The operator closes the warning box of a behaviour.
WarnOk ==
    /\ stack # <<>> /\ Head(stack).t = "dlg_warn"
    /\ \E skip \in Skips, pick \in Picks :
          Set(Unwind(warn_closed(Pop(Fresh(S))), skip, pick))

\* The Stop button: stop_execution.
StopExecution ==
    /\ Idle
    /\ \E exited \in BOOLEAN, skip \in Skips, pick \in Picks :
          Set(Unwind(stop(Fresh(S), exited), skip, pick))

\* A settle timer of 100 ms fires.
SettleTimer ==
    /\ runner.timers > 0 /\ ~Aborted
    /\ Set(settle_timer(Fresh(S)))

ChipChanged ==
    /\ Idle
    /\ \E chip \in {"A9", "A10"} \ {state.chip} : Set(on_chip_changed(Fresh(S), chip))

ModeChanged ==
    /\ Idle
    /\ \E mode \in {"teth", "unteth"} \ {current_mode} : Set(on_mode_changed(Fresh(S), mode))

\* Open or Create with the home directory chosen.
LoadProject ==
    /\ Idle
    /\ Set(load_project(Fresh(S), Home))

\* Open or Create with another directory chosen.
LoadOther ==
    /\ Idle
    /\ \E d \in Dirs \ {Home} : Set(load_project(Fresh(S), d))

SelectIpsw ==
    /\ Idle /\ state.root_dir # NONE
    /\ Set(select_ipsw(Fresh(S), "fw.ipsw"))

SelectBlob ==
    /\ Idle /\ state.root_dir # NONE
    /\ \E gen \in Generators : Set(select_blob(Fresh(S), "b.shsh2", gen))

DropFile ==
    /\ Idle
    /\ \/ Set(dropEvent(Fresh(S), "ipsw", "fw.ipsw", NONE))
       \/ \E gen \in Generators : Set(dropEvent(Fresh(S), "blob", "b.shsh2", gen))

\* The file the tool of a step writes, under its stable name or another one.
Target(f) ==
    CASE f = "step_a9_teth_get_shc_pre" -> {"shcblock_pre.bin", "x.bin"}
      [] f = "step_a9_teth_get_shc_post" -> {"shcblock_post.bin", "x.bin"}
      [] f = "step_a9_teth_get_pte" -> {"pteblock.bin", "x.bin"}
      [] f = "step_a9_unteth_get_shc" -> {"shcblock_unteth.bin", "x.bin"}
      [] OTHER -> {}

\* The external tool of process p has written out into block/ when it exits.
tool_output(s, p, out) ==
    IF s.procs[p].cmd.dir = NONE \/ out = NONE THEN s
    ELSE [s EXCEPT !.disk.tmp[s.procs[p].cmd.dir] = @ \cup {out}]

Outputs(p) == IF procs[p].cmd.k = procs[p].cmd.n /\ procs[p].cmd.dir # NONE
              THEN Target(procs[p].cmd.func) \cup {NONE} ELSE {NONE}

\* A process exits on its own and its finished signal is delivered.
ProcessExit ==
    \E p \in Live(S), success \in BOOLEAN, skip \in Skips, pick \in Picks :
        \E out \in Outputs(p) :
            /\ ~Aborted
            /\ Set(Unwind(on_finished(tool_output(Fresh(S), p, out), p, success), skip, pick))

\* The operator copies an image file into the project directory.
PlaceImage ==
    /\ Idle /\ state.root_dir # NONE
    /\ \E f \in ImageFiles \ disk.files[state.root_dir] :
          /\ f = "a-iBoot.img4" => "a-signed-SEP.img4" \in disk.files[state.root_dir]
          /\ f = "a-target-SEP.im4p" => "a-iBoot.img4" \in disk.files[state.root_dir]
          /\ disk' = [disk EXCEPT !.files[state.root_dir] = @ \cup {f}]
          /\ last' = EmptyLog
          /\ UNCHANGED <<state, current_mode, enabled, steps, current_step, is_executing,
                         current_step_callback, runner, procs, stack, nchain, budget>>

Next ==
    \/ ClickStep
    \/ DialogChoice
    \/ WarnOk
    \/ StopExecution
    \/ ProcessExit
    \/ SettleTimer
    \/ ChipChanged
    \/ ModeChanged
    \/ LoadProject
    \/ SelectIpsw
    \/ SelectBlob
    \/ DropFile
    \/ PlaceImage

Spec == Init /\ [][Next]_vars

\* A project set up through load_project, select_ipsw, select_blob, the chip and
\* mode buttons and copied image files, before any step was executed.
PreparedWith(chip, mode, files, tmp) ==
    /\ state = [root_dir |-> "d1", ipsw |-> "fw.ipsw", blob |-> "b.shsh2",
                gen |-> "0x1111222233334444", chip |-> chip]
    /\ current_mode = mode
    /\ enabled = TRUE
    /\ steps = [i \in 1..Len(StepTable(chip, mode)) |->
                    [func |-> StepTable(chip, mode)[i], status |-> PENDING]]
    /\ current_step = -1
    /\ is_executing = FALSE
    /\ current_step_callback = NONE
    /\ runner = ProcessRunner_init
    /\ procs = <<>>
    /\ disk = [files |-> [d \in Dirs |-> files], tmp |-> [d \in Dirs |-> tmp],
               pj |-> [d \in Dirs |-> {Record(state)}]]
    /\ stack = <<>>
    /\ nchain = 0
    /\ last = EmptyLog

Prepared(chip, mode, files) == PreparedWith(chip, mode, files, {})

InitRun ==
    /\ \/ Prepared("A9", "unteth", {})
       \/ Prepared("A10", "teth", ImageFiles)
    /\ budget = MaxRuns

NextRun ==
    \/ ClickStep
    \/ DialogChoice
    \/ WarnOk
    \/ StopExecution
    \/ ProcessExit
    \/ SettleTimer

SpecRun == InitRun /\ [][NextRun]_vars

\* The five-step pipeline (A9 tethered) of a prepared project, no artifact yet.
InitTeth ==
    /\ Prepared("A9", "teth", {})
    /\ budget = MaxRuns

SpecTeth == InitTeth /\ [][NextRun]_vars

\* A prepared A10 tethered project whose directory is as any directory the
\* operator opens can be: it may hold a plain file named block, or a block/
\* directory with a hidden file and a nested directory in it.
InitFault ==
    /\ \/ Prepared("A10", "teth", {})
       \/ Prepared("A10", "teth", {"block"})
       \/ PreparedWith("A10", "teth", {}, Skipped)
    /\ budget = MaxRuns

SpecFault == InitFault /\ [][NextRun]_vars

\* The files detect_progress looks for.
Markers == {"shcblock_pre.bin", "restore_done", "shcblock_post.bin", "pteblock.bin",
            "shcblock_unteth.bin"}

\* The window after construction, and a directory that holds any of the marker
\* files from earlier work.
InitOpen ==
    /\ state = ProjectState_init
    /\ current_mode = "teth"
    /\ enabled = FALSE
    /\ steps = [i \in 1..5 |-> [func |-> StepTable("A9", "teth")[i], status |-> PENDING]]
    /\ current_step = -1
    /\ is_executing = FALSE
    /\ current_step_callback = NONE
    /\ runner = ProcessRunner_init
    /\ procs = <<>>
    /\ \E found \in SUBSET Markers :
          disk = [files |-> [d \in Dirs |-> found], tmp |-> [d \in Dirs |-> {}],
                  pj |-> [d \in Dirs |-> {}]]
    /\ stack = <<>>
    /\ nchain = 0
    /\ budget = 0
    /\ last = EmptyLog

NextOpen ==
    \/ LoadProject
    \/ ChipChanged
    \/ ModeChanged

SpecOpen == InitOpen /\ [][NextOpen]_vars

\* A prepared project on which the operator runs steps and changes chip and mode.
InitSwitch ==
    /\ Prepared("A10", "unteth", {})
    /\ budget = MaxExecs

NextSwitch ==
    \/ ClickStep
    \/ DialogChoice
    \/ WarnOk
    \/ StopExecution
    \/ ProcessExit
    \/ SettleTimer
    \/ ChipChanged
    \/ ModeChanged

SpecSwitch == InitSwitch /\ [][NextSwitch]_vars

\* Project states with a root directory, as load leaves them from the
\* project.json of any directory: a field is null, an empty string or a value.
InitStore ==
    /\ \E i \in {NONE, "", "fw.ipsw"}, b \in {NONE, "", "b.shsh2"},
          g \in {NONE, ""} \cup Generators, c \in {"A9", "A10"} :
          /\ state = [root_dir |-> "d1", ipsw |-> i, blob |-> b, gen |-> g, chip |-> c]
          /\ steps = [n \in 1..Len(StepTable(c, "teth")) |->
                          [func |-> StepTable(c, "teth")[n], status |-> PENDING]]
          /\ enabled = Truthy(i)
          /\ disk = [files |-> [d \in Dirs |-> {}], tmp |-> [d \in Dirs |-> {}],
                     pj |-> [d \in Dirs |-> {[ipsw |-> i, blob |-> b, gen |-> g, chip |-> c]}]]
    /\ current_mode = "teth"
    /\ current_step = -1
    /\ is_executing = FALSE
    /\ current_step_callback = NONE
    /\ runner = ProcessRunner_init
    /\ procs = <<>>
    /\ stack = <<>>
    /\ nchain = 0
    /\ budget = 0
    /\ last = EmptyLog

\* ProjectState.save, then ProjectState.load on the same directory.
SaveLoad ==
    /\ state.root_dir # NONE
    /\ Set([load(save(Fresh(S)), state.root_dir) EXCEPT !.last.loads = <<state>>])

SpecStore == InitStore /\ [][SaveLoad]_vars

\* The blob files the operator can pick: unreadable, or up to MaxLines lines of
\* up to MaxElems elements.
Lines == UNION {[1..n -> Elems] : n \in 0..MaxElems}
Blobs == {[readable |-> FALSE, lines |-> <<>>]} \cup
         {[readable |-> TRUE, lines |-> l] : l \in UNION {[1..n -> Lines] : n \in 0..MaxLines}}

\* select_blob with a blob file of any content, on a project that has no blob yet.
SelectAnyBlob ==
    /\ Idle /\ state.root_dir # NONE /\ state.blob = NONE
    /\ \E blob \in Blobs :
          Set([select_blob(Fresh(S), "b.shsh2", extract_generator(blob))
                  EXCEPT !.last.extracts = <<[blob |-> blob, gen |-> extract_generator(blob)]>>])

\* A new project directory just opened: load has written the default record.
InitGen ==
    /\ state = [root_dir |-> "d1", ipsw |-> NONE, blob |-> NONE, gen |-> NONE, chip |-> "A9"]
    /\ current_mode = "teth"
    /\ enabled = FALSE
    /\ steps = [i \in 1..5 |-> [func |-> StepTable("A9", "teth")[i], status |-> PENDING]]
    /\ current_step = -1
    /\ is_executing = FALSE
    /\ current_step_callback = NONE
    /\ runner = ProcessRunner_init
    /\ procs = <<>>
    /\ disk = [files |-> [d \in Dirs |-> {}], tmp |-> [d \in Dirs |-> {}],
               pj |-> [d \in Dirs |-> {Record(state)}]]
    /\ stack = <<>>
    /\ nchain = 0
    /\ budget = 0
    /\ last = EmptyLog

SpecGen == InitGen /\ [][SelectAnyBlob]_vars

\* The runs of a prepared project in which every started process exits (time
\* and again no process is live), every settle timer fires and the operator
\* closes every dialog.
InitLive ==
    /\ \/ Prepared("A9", "unteth", {})
       \/ Prepared("A10", "teth", ImageFiles)
       \/ Prepared("A10", "unteth", {})
       \/ Prepared("A9", "teth", {})
    /\ budget = MaxExecs

SpecLive ==
    /\ InitLive
    /\ [][NextRun]_vars
    /\ []<>(Live(S) = {})
    /\ WF_vars(SettleTimer)
    /\ WF_vars(DialogChoice)
    /\ WF_vars(WarnOk)

\* A prepared A9 project whose directory holds any *.bin files left by earlier
\* work, on which steps are run.
InitResolve ==
    /\ \E found \in SUBSET {"x.bin", "y.bin", "shcblock_pre.bin", "pteblock.bin"} :
          \/ Prepared("A9", "unteth", found)
          \/ Prepared("A9", "teth", found)
    /\ budget = MaxExecs

SpecResolve == InitResolve /\ [][NextRun]_vars

\* The window after construction, and a directory that is new or holds a
\* project.json of any content: a field is null, an empty string or a value.
InitSync ==
    /\ state = ProjectState_init
    /\ current_mode = "teth"
    /\ enabled = FALSE
    /\ steps = [i \in 1..5 |-> [func |-> StepTable("A9", "teth")[i], status |-> PENDING]]
    /\ current_step = -1
    /\ is_executing = FALSE
    /\ current_step_callback = NONE
    /\ runner = ProcessRunner_init
    /\ procs = <<>>
    /\ \E json \in {{}} \cup {{[ipsw |-> i, blob |-> b, gen |-> g, chip |-> c]} :
                              i \in {NONE, "", "fw.ipsw"}, b \in {NONE, "b.shsh2"},
                              g \in {NONE, "0x1111222233334444"}, c \in {"A9", "A10"}} :
          disk = [files |-> [d \in Dirs |-> {}], tmp |-> [d \in Dirs |-> {}],
                  pj |-> [d \in Dirs |-> json]]
    /\ stack = <<>>
    /\ nchain = 0
    /\ budget = 0
    /\ last = EmptyLog

NextSync ==
    \/ LoadProject
    \/ ChipChanged
    \/ SelectIpsw
    \/ SelectBlob
    \/ DropFile

SpecSync == InitSync /\ [][NextSync]_vars

\* A prepared project in every directory; the operator may open another
\* directory at any time, a chain running or not.
InitMove ==
    /\ \/ Prepared("A10", "teth", ImageFiles)
       \/ Prepared("A9", "teth", {})
    /\ budget = MaxExecs

NextMove ==
    \/ ClickStep
    \/ DialogChoice
    \/ WarnOk
    \/ StopExecution
    \/ ProcessExit
    \/ SettleTimer
    \/ LoadOther

SpecMove == InitMove /\ [][NextMove]_vars

\* ------------------------------------------------------------------ claims
Range(q) == {q[i] : i \in 1..Len(q)}

RunningSteps == {i \in 1..Len(steps) : steps[i].status = RUNNING}

\* C1: in every reachable state at most one step of the step list is Running.
C1_AtMostOneRunning == Cardinality(RunningSteps) <= 1

\* C2: in every reachable state at most one process started by the runner is
\* live, and no call of run starts a process while one is live.
C2_SingleProcess ==
    /\ Cardinality(Live(S)) <= 1
    /\ \A r \in Range(last.runs) : r.started = 1 => r.live = 0

\* C3: a command of a chain is started only as the first of its chain or after
\* the command before it in the chain was run and was seen to exit with code 0.
C3_ChainOrder == \A p \in 1..Len(procs) : procs[p].pred \in {"first", "ok"}

C5_RunContract ==
    \A r \in Range(last.runs) :
        IF r.is_running \/ r.live > 0
        THEN ~r.ret /\ r.started = 0 /\ r.unchanged
        ELSE r.ret /\ r.started = 1 /\ r.now_running

\* C6: run_chain called while a chain is active (a process running, or commands
\* queued for the settle timer) leaves the queued commands of that chain as
\* they were.
C6_RunChainRejected ==
    \A c \in Range(last.chains) :
        (c.is_running \/ c.before # <<>>) => c.after = c.before

\* C7: when stop_execution has returned, no process is live, the command queue
\* is empty, is_running is false and is_executing is false.
C7_StopLeavesIdle ==
    last.stopped =>
        /\ Live(S) = {}
        /\ runner.command_queue = <<>>
        /\ ~runner.is_running
        /\ ~is_executing

\* The preconditions the step table lists for a behaviour, over what
\* execute_step found on entry.
ListedMissing(f, pre) ==
    LET has(x) == x \in pre.files
    IN  \/ pre.root_dir = NONE
        \/ CASE f = "step_a9_teth_get_shc_pre" -> pre.ipsw = NONE
             [] f = "step_a9_teth_restore" -> ~has("shcblock_pre.bin")
             [] f = "step_a9_teth_get_shc_post" -> FALSE
             [] f = "step_a9_teth_get_pte" ->
                    ~has("shcblock_post.bin") \/ ~has("a-signed-SEP.img4")
             [] f = "step_a9_teth_boot" -> ~has("pteblock.bin")
             [] f = "step_a10_teth_restore" -> pre.ipsw = NONE
             [] f = "step_a10_teth_boot" ->
                    ~has("a-iBoot.img4") \/ ~has("a-signed-SEP.img4") \/ ~has("a-target-SEP.im4p")
             [] f = "step_a9_unteth_get_shc" -> pre.ipsw = NONE
             [] f = "step_a9_unteth_restore" ->
                    ~has("shcblock_unteth.bin") \/ pre.blob = NONE \/ pre.gen = NONE
             [] f = "step_a10_unteth_restore" ->
                    pre.ipsw = NONE \/ pre.blob = NONE \/ pre.gen = NONE

\* C8: when execute_step returns for a step one of whose listed preconditions was
\* missing on entry, no command was handed to the runner, the step is Failed
\* and is_executing is false.
C8_PreconditionFailsFast ==
    \A r \in Range(last.rets) :
        ListedMissing(r.func, r.pre) =>
            /\ ~r.handed
            /\ r.status = FAILED
            /\ ~r.is_executing

\* C9: a result dialog for a step that ended Failed offers Retry and Close, and
\* not Next Step.
C9_FailedOffersRetry ==
    \A d \in Range(last.dialogs) :
        d.status = FAILED => d.buttons = {"Retry", "Close"}

\* C10: a result dialog for a step that ended Success offers Next Step and Close
\* when the step is not the last of the step list, and Close alone when it is.
C10_SuccessOffersNext ==
    \A d \in Range(last.dialogs) :
        d.status = SUCCESS =>
            d.buttons = IF d.idx = Len(steps) - 1 THEN {"Close"} ELSE {"Next Step", "Close"}

\* The last step of the list ended Success and its dialog was opened.
C10_Witness ==
    \E d \in Range(last.dialogs) : d.status = SUCCESS /\ d.idx = Len(steps) - 1

\* The canonical artifact of an artifact-producing behaviour, and the names its
\* resolver does not take as candidates.
Artifact(f) ==
    CASE f = "step_a9_teth_get_shc_pre" -> "shcblock_pre.bin"
      [] f = "step_a9_teth_get_shc_post" -> "shcblock_post.bin"
      [] f = "step_a9_teth_get_pte" -> "pteblock.bin"
      [] f = "step_a9_unteth_get_shc" -> "shcblock_unteth.bin"
      [] OTHER -> NONE

Excluded(f) ==
    CASE f = "step_a9_teth_get_shc_post" -> {"shcblock_pre.bin", "shcblock_post.bin"}
      [] f = "step_a9_teth_get_pte" -> {"shcblock_pre.bin", "shcblock_post.bin", "pteblock.bin"}
      [] OTHER -> {}

RootFiles(d) == d.files[state.root_dir]

C12_SetupExceptionAbsorbed ==
    \A r \in Range(last.rets) : ~r.raised

\* The pipelines of the step table, by the behaviour each step is bound to.
Pipeline(chip, mode) ==
    CASE chip = "A9" /\ mode = "teth" ->
            <<"step_a9_teth_get_shc_pre", "step_a9_teth_restore", "step_a9_teth_get_shc_post",
              "step_a9_teth_get_pte", "step_a9_teth_boot">>
      [] chip = "A10" /\ mode = "teth" -> <<"step_a10_teth_restore", "step_a10_teth_boot">>
      [] chip = "A9" /\ mode = "unteth" -> <<"step_a9_unteth_get_shc", "step_a9_unteth_restore">>
      [] chip = "A10" /\ mode = "unteth" -> <<"step_a10_unteth_restore">>

Funcs == [i \in 1..Len(steps) |-> steps[i].func]

\* C13: when load_steps has run, the step list is the pipeline of the table for
\* the chip and mode, in order, each step bound to its behaviour.
C13_PipelineInstalled ==
    last.loaded => Funcs = Pipeline(state.chip, current_mode)

\* load_steps has installed the one-step pipeline of A10 untethered.
C13_Witness ==
    last.loaded /\ state.chip = "A10" /\ current_mode = "unteth" /\ Len(steps) = 1

\* C14: a resolver that runs after a successful chain and finds its target in
\* the project root reports success (the step becomes Success) and leaves
\* every file as it was, whatever other *.bin files are there.
C14_ResolverIdempotent ==
    \A c \in Range(last.completions) :
        (c.success /\ Artifact(c.cb) # NONE /\ Artifact(c.cb) \in RootFiles(c.moved))
            => c.status = SUCCESS /\ c.after = c.moved

\* A resolver has run with its target and another candidate both present.
C14_Witness ==
    \E c \in Range(last.completions) :
        /\ c.success /\ Artifact(c.cb) # NONE /\ Artifact(c.cb) \in RootFiles(c.moved)
        /\ (RootFiles(c.moved) \cap BinFiles) \ (Excluded(c.cb) \cup {Artifact(c.cb)}) # {}

\* C15: when a chain completes, every file that was in block/ or image4/ is in
\* the project root after the move, and the two directories are gone.
C15_TempFilesFlattened ==
    \A c \in Range(last.completions) :
        /\ c.before.tmp[state.root_dir] \subseteq RootFiles(c.moved)
        /\ c.moved.tmp[state.root_dir] = {}

\* The file that marks step n (counted from 1) of a pipeline as done.
MarkerOf(chip, mode, n) ==
    CASE chip = "A9" /\ mode = "teth" /\ n = 1 -> "shcblock_pre.bin"
      [] chip = "A9" /\ mode = "teth" /\ n = 2 -> "restore_done"
      [] chip = "A9" /\ mode = "teth" /\ n = 3 -> "shcblock_post.bin"
      [] chip = "A9" /\ mode = "teth" /\ n = 4 -> "pteblock.bin"
      [] chip = "A10" /\ mode = "teth" /\ n = 1 -> "restore_done"
      [] chip = "A9" /\ mode = "unteth" /\ n = 1 -> "shcblock_unteth.bin"
      [] chip = "A9" /\ mode = "unteth" /\ n = 2 -> "restore_done"
      [] chip = "A10" /\ mode = "unteth" /\ n = 1 -> "restore_done"
      [] OTHER -> NONE

FreshList(q) == \A i \in 1..Len(q) : q[i].status = PENDING

FirstPending(q) ==
    {i \in 0..(Len(q) - 1) :
        q[i + 1].status = PENDING /\ \A j \in 0..(i - 1) : q[j + 1].status # PENDING}

\* C16: detect_progress on a freshly reset step list makes a step Success
\* exactly when its marker file is in the project root, leaves the others
\* Pending, and flags exactly the first Pending step as next.
C16_ProgressFromFiles ==
    \A g \in Range(last.progress) :
        FreshList(g.before) =>
            /\ \A n \in 1..Len(g.after) :
                  g.after[n].status =
                      IF MarkerOf(g.chip, g.mode, n) \in g.files THEN SUCCESS ELSE PENDING
            /\ g.next = FirstPending(g.after)

\* detect_progress has marked a step of a fresh list Success and flagged a
\* later step as next.
C16_Witness ==
    \E g \in Range(last.progress) :
        /\ FreshList(g.before)
        /\ \E n \in 1..Len(g.after) : g.after[n].status = SUCCESS
        /\ g.next # {} /\ g.next # {0}

\* C17: after load_project a step whose marker file is absent from the project
\* root is Pending, whatever its status was before.
C17_StatusFromFilesOnly ==
    \A g \in Range(last.progress) :
        \A n \in 1..Len(g.after) :
            MarkerOf(g.chip, g.mode, n) \notin g.files => g.after[n].status = PENDING

\* C18: save followed by load on the same directory gives back the ipsw, blob,
\* gen and chip the project state had, an empty string included.
C18_RoundTrip ==
    \A x \in Range(last.loads) :
        /\ state.ipsw = x.ipsw
        /\ state.blob = x.blob
        /\ state.gen = x.gen
        /\ state.chip = x.chip

\* C19: after the operator changes the chip or the mode, the step list is the
\* pipeline of the new chip and mode, every step is Pending and no step is
\* current, also when a chain was running.
C19_ChangeResetsSteps ==
    (last.changed /\ last.progress = <<>>) =>
        /\ Funcs = Pipeline(state.chip, current_mode)
        /\ FreshList(steps)
        /\ current_step = -1

\* The chip or the mode was changed while a chain was running.
C19_Witness ==
    last.changed /\ last.progress = <<>> /\ is_executing /\ runner.is_running

\* C20: a command chain is started only in the handling of a click on a step
\* button or on Next Step or Retry of the result dialog; the handling of a
\* process exit, a timer or any other event starts none.
C20_ChainsOnlyByOperator ==
    last.chains # <<>> => last.event \in {"click", "Next Step", "Retry"}

\* Retry was clicked with a later completion of the old chain still to be
\* delivered: the same handler started a chain and completed one.
C20_Witness ==
    last.chains # <<>> /\ last.event = "Retry" /\ last.emits # <<>>

\* C21: while no project directory is set, ipsw, blob, gen and chip hold the
\* values of construction: nothing has written them.
C21_RootBeforeFields ==
    state.root_dir = NONE =>
        /\ state.ipsw = NONE
        /\ state.blob = NONE
        /\ state.gen = NONE
        /\ state.chip = "A9"

\* The elements of a blob in document order, and the first string element
\* after the first generator key.
Flat(text) ==
    {p \in (1..Len(text)) \X (1..MaxElems + 1) : p[2] <= Len(text[p[1]])}

Before(p, q) == p[1] < q[1] \/ (p[1] = q[1] /\ p[2] < q[2])

Expected(blob) ==
    IF ~blob.readable THEN "UNKNOWN"
    ELSE LET text == blob.lines
             keys == {p \in Flat(text) : text[p[1]][p[2]] = "key_generator"}
             key == CHOOSE p \in keys : \A q \in keys : p = q \/ Before(p, q)
             after == {p \in Flat(text) : Before(key, p) /\ StringValue(text[p[1]][p[2]]) # NONE}
             first == CHOOSE p \in after : \A q \in after : p = q \/ Before(p, q)
         IN  IF keys = {} \/ after = {} THEN "UNKNOWN"
             ELSE StringValue(text[first[1]][first[2]])

\* C22: extract_generator returns the value of the first string element after
\* the generator key of the blob, and UNKNOWN when the blob has no generator
\* key or cannot be read.
C22_GeneratorExtracted ==
    \A e \in Range(last.extracts) : e.gen = Expected(e.blob)

\* The commands the behaviour f puts in its chain.
ChainLength(f) ==
    IF f \in {"step_a9_teth_get_shc_post", "step_a9_teth_get_pte", "step_a9_teth_boot",
              "step_a10_teth_boot"} THEN 1 ELSE 2

\* Every command of the chain that the latest execution of the completed step
\* built was run and exited with code 0.  The latest call of execute_step is
\* the one that made the step current, so its chain is the newest one if the
\* behaviour of the step built it.
ChainDone(c) ==
    \A k \in 1..ChainLength(c.func) :
        \E p \in 1..Len(c.procs) :
            /\ c.procs[p].cmd.chain = c.chain
            /\ c.procs[p].cmd.func = c.func
            /\ c.procs[p].cmd.k = k
            /\ c.procs[p].st = "ok"

\* C23: a chain completion makes the step Success, or creates restore_done,
\* only if every command of the chain built for that execution of the step
\* was run and exited with code 0.
C23_SuccessNeedsWholeChain ==
    \A c \in Range(last.completions) :
        (\/ c.status = SUCCESS
         \/ "restore_done" \in RootFiles(c.after) \ RootFiles(c.moved))
            => ChainDone(c)

\* C24: a step that is Running is Success or Failed at some later time.
C24_RunningEnds ==
    \A i \in 1..5 :
        (i <= Len(steps) /\ steps[i].status = RUNNING)
            ~> (i <= Len(steps) /\ steps[i].status \in {SUCCESS, FAILED})

BootSteps == {"step_a9_teth_boot", "step_a10_teth_boot"}

\* C25: a callback is invoked only at the completion of the chain its own
\* behaviour launched, never for a boot step, and once only; when Stop has
\* returned no callback is registered.
C25_CallbackOncePerChain ==
    /\ \A c \in Range(last.completions) :
          /\ c.cb # NONE => c.cb = c.ran /\ c.cb = c.func
          /\ c.func \in BootSteps => c.cb = NONE
    /\ \A i, j \in 1..Len(last.completions) :
          (i < j /\ last.completions[i].cb # NONE /\ last.completions[j].cb # NONE)
              => last.completions[i].chain # last.completions[j].chain
    /\ last.stopped => current_step_callback = NONE

\* C26: the step a chain completion sets to Success or Failed, and for which
\* the result dialog is opened, is the step whose behaviour launched the chain
\* that completed.
C26_CompletionHitsLauncher ==
    \A c \in Range(last.completions) :
        /\ c.ran = c.func
        /\ \A d \in Range(last.dialogs) : steps[d.idx + 1].func = c.ran

\* The statuses of all steps but those at the positions in keep are the same
\* before and after the step of the behaviour.
OthersUnchanged(keep) ==
    /\ Len(steps') = Len(steps)
    /\ \A k \in (1..Len(steps)) \ keep : steps'[k].status = steps[k].status

\* C27: when the operator chooses Next Step in the result dialog of step i,
\* step i+1 is Running afterwards and step i is Success; when the operator
\* chooses Retry, step i is Running afterwards; no other step changes status.
C27_NextAndRetry ==
    [][
        /\ (last'.event = "Next Step") =>
              (LET i == Head(stack).idx + 1
               IN  /\ steps'[i + 1].status = RUNNING
                   /\ steps'[i].status = SUCCESS
                   /\ OthersUnchanged({i, i + 1}))
        /\ (last'.event = "Retry") =>
              (LET r == Head(stack).idx + 1
               IN  /\ steps'[r].status = RUNNING
                   /\ OthersUnchanged({r}))
    ]_vars

\* C28: start_step and complete_step change a status only along
\* Pending -> Running, Success -> Running, Failed -> Running,
\* Running -> Success and Running -> Failed, and complete_step finds the step
\* Running: a step is completed once per entry into Running.
C28_StatusTransitions ==
    \A g \in Range(last.changes) :
        IF g.to = RUNNING
        THEN g.from \in {PENDING, SUCCESS, FAILED, RUNNING}
        ELSE g.from = RUNNING

\* The *.bin files a resolver takes as candidates among the files it finds.
Candidates(c) == (RootFiles(c.moved) \cap BinFiles) \ Excluded(c.cb)

\* C29: a resolver that runs after a successful chain and finds no target but
\* some candidate moves the most recently modified candidate to the canonical
\* name: afterwards the target exists, that candidate does not, and every
\* other file is as it was.
C29_NewestMovedToTarget ==
    \A c \in Range(last.completions) :
        (/\ c.success /\ Artifact(c.cb) # NONE
         /\ Artifact(c.cb) \notin RootFiles(c.moved)
         /\ c.newest \in Candidates(c))
            => /\ RootFiles(c.after) = (RootFiles(c.moved) \ {c.newest}) \cup {Artifact(c.cb)}
               /\ c.after.tmp = c.moved.tmp
               /\ c.after.pj = c.moved.pj

\* A resolver had two candidates and an excluded *.bin before it, and no target.
C29_Witness ==
    \E c \in Range(last.completions) :
        /\ c.success /\ Artifact(c.cb) # NONE
        /\ Artifact(c.cb) \notin RootFiles(c.moved)
        /\ c.newest \in Candidates(c)
        /\ Cardinality(Candidates(c)) >= 2
        /\ Excluded(c.cb) \cap RootFiles(c.moved) # {}

\* C30: while a project is open and no handler waits on a dialog, project.json
\* of the project directory holds the ipsw, blob, gen and chip of the project
\* state in memory.
C30_RecordInSync ==
    (state.root_dir # NONE /\ Idle) =>
        disk.pj[state.root_dir] =
            {[ipsw |-> state.ipsw, blob |-> state.blob, gen |-> state.gen, chip |-> state.chip]}

\* C31: a chain of an untethered restore (A9 untethered step 2, A10
\* untethered step 1) is started only with a generator that was extracted from
\* the blob: never with the sentinel UNKNOWN of a failed extraction.
C31_NoRestoreWithUnknown ==
    \A c \in Range(last.chains) :
        c.func \in {"step_a9_unteth_restore", "step_a10_unteth_restore"}
            => c.gen # "UNKNOWN"

\* C32: in every reachable state in which a process started by the runner is
\* live, is_executing is true and the runner's is_running is true.
C32_LiveIsCovered ==
    Live(S) # {} => (is_executing /\ runner.is_running)

\* C33: the handling of a chain completion (flattening, then the resolver of
\* the registered callback) leaves in the project root every canonical
\* artifact that was there before it and belongs to another stage than the
\* callback's.
C33_OtherArtifactsKept ==
    \A c \in Range(last.completions) :
        ((RootFiles(c.before) \cap CanonicalBins) \ {Artifact(c.cb)}) \subseteq RootFiles(c.after)

\* C34: the handling of a chain completion writes only into the project
\* directory that was open when the chain was built: the files of every other
\* directory are as they were before it.
C34_WritesStayInStartDir ==
    \A c \in Range(last.completions) :
        c.dir # NONE =>
            \A d \in Dirs \ {c.dir} :
                /\ c.after.files[d] = c.before.files[d]
                /\ c.after.tmp[d] = c.before.tmp[d]

====
